---- MODULE Spec2Model ----
(***************************************************************************)
(* Moning: article summary cache, batch summarizer and API handler         *)
(* (aws-deployment/functions), and the keyword classifier / recap          *)
(* generators (tech_industry_recap, industry_weekly_recap,                 *)
(* enhanced_tech_recap).                                                   *)
(*                                                                         *)
(* Time is counted in whole hours (utcnow).  The DynamoDB table is a       *)
(* function from the stored article ids to their items.                    *)
(***************************************************************************)
EXTENDS Integers, Sequences, FiniteSets, TLC

VARIABLES
    clock,        \* datetime.utcnow(), in hours
    ticks,        \* number of clock advances so far (bounded)
    table,        \* DynamoDB table 'article-summaries': article_id -> item
    pc,           \* batch lambda: "idle", "check", "generate", "write", "done"
    articles,     \* the articles handed to process_articles_batch
    idx,          \* 1-based position of the article being processed
    results,      \* results dict of process_articles_batch
    summary,      \* summary returned by generate_summary, waiting to be cached
    invocations,  \* bedrock invoke_model calls of the current run
    runflags,     \* did a store read / write fail during the current run
    prev,         \* what the previous batch run was given and reported
    step,         \* what the batch step just taken did (get / generate / put)
    puts,         \* id -> summary and time of the last put_item that succeeded
    reported,     \* id -> the summary last counted in new_summaries, and
                  \* whether its put_item succeeded
    batch_resp,   \* response of the batch lambda_handler
    api_resp,     \* response of the API lambda_handler call just made
    feed,         \* source name -> what feedparser.parse gives for its url
    rpc,          \* recap generator: "off", "start", "tech_fetched", ...
    tech_articles,    \* TechIndustryRecap.fetch_past_week_articles()
    mock_headline,    \* the biggest story of generate_mock_industry_recap
    weekly_articles,  \* IndustryRecapGenerator.fetch_week_articles()
    categories,       \* IndustryRecapGenerator.categorize_articles(articles)
    analysis,         \* EnhancedTechRecap.fetch_and_analyze_articles()
    biggest_story,    \* biggest_story of create_realistic_industry_recap
    called,           \* the generators the recap runner has called
    derived,          \* the articles fetch_latest_article returned, in order
    calls,            \* concurrent caller -> its cache_summary call in flight
    written,          \* the items put_item stored, in the order of the puts
    observed,         \* the items get_item returned to concurrent readers
    prompts           \* the article bodies placed in summarization prompts

batch_vars == <<clock, ticks, table, pc, articles, idx, results, summary,
                invocations, runflags, prev, step, puts, reported, batch_resp,
                api_resp>>

recap_vars == <<feed, rpc, tech_articles, mock_headline, weekly_articles,
                categories, analysis, biggest_story, called>>

other_vars == <<derived, calls, written, observed, prompts>>

vars == <<batch_vars, recap_vars, other_vars>>

-----------------------------------------------------------------------------
(* Program constants *)

MAX_ARTICLES_PER_BATCH == 50
CACHE_DURATION_HOURS == 24
TTL_DAYS == 30
MIN_SUMMARY_LENGTH == 20
max_batch_size == 50
LOOKBACK_DAYS == 7
WEEKLY_ENTRIES_PER_SOURCE == 20
ENHANCED_ENTRIES_PER_SOURCE == 15
MAX_MAJOR_STORIES == 10
MIN_TECH_ARTICLES == 10
MIN_ENHANCED_ARTICLES == 5
MIN_SECTION_ARTICLES == 2
MAX_SECTION_ARTICLES == 5

\* timedelta(days=30), in hours
TTL_HOURS == TTL_DAYS * 24

(* Bounds of the model *)

MaxTicks == 2
MaxBatch == 2
MaxIds == 2
MaxEntries == 2
MaxFetches == 3
MaxReads == 2
MaxPuts == 2
MaxPrompts == 2

Ids == {"a", "b"}
TickSteps == {1, CACHE_DURATION_HOURS - 1}

NoSummary == ""          \* None (and every falsy summary)
NoId == ""               \* article without a usable 'id'

\* article records of an event: id may be missing, content may be empty
\* (dict = the record is a JSON object, so that article.get exists)
Articles ==
    {[id |-> "a", content_len |-> 5, dict |-> TRUE],
     [id |-> "b", content_len |-> 5, dict |-> TRUE],
     [id |-> "a", content_len |-> 0, dict |-> TRUE],
     [id |-> NoId, content_len |-> 5, dict |-> TRUE]}

\* a record of an event that is no JSON object (null, a string, a list)
NotADict == [id |-> NoId, content_len |-> 0, dict |-> FALSE]

Records == Articles \cup {NotADict}

BatchesUpTo(n) == UNION {[1..k -> Articles] : k \in 0..n}

\* event['articles'] of any event
EventsUpTo(n) == UNION {[1..k -> Records] : k \in 0..n}

\* event['batch_size'] of any event
BatchSizes == {-1, 0, 1, MAX_ARTICLES_PER_BATCH, MAX_ARTICLES_PER_BATCH + 1}

\* what bedrock_runtime.invoke_model can answer
ModelFailures == {"raise", "malformed"}
ModelTexts == {" s1 ", "s2", "short19", " short19 "}
ModelOutputs == ModelFailures \cup ModelTexts

\* str.strip()
Strip(t) ==
    CASE t = " s1 " -> "s1"
      [] t = " short19 " -> "short19"
      [] OTHER -> t

\* len()
TextLen(t) ==
    CASE t = " s1 " -> 42
      [] t = "s1" -> 40
      [] t = "s2" -> 20
      [] t = "short19" -> 19
      [] t = " short19 " -> 21
      [] OTHER -> 0

Min(a, b) == IF a < b THEN a ELSE b

\* seq[:n]
SliceTo(seq, n) ==
    IF n >= 0 THEN SubSeq(seq, 1, Min(Len(seq), n))
    ELSE SubSeq(seq, 1, IF Len(seq) + n > 0 THEN Len(seq) + n ELSE 0)

-----------------------------------------------------------------------------
(* Batch summarizer: pure parts *)

\* variant: an entry exactly CACHE_DURATION_HOURS old still counts as fresh
get_cached_summary_le(tbl, article_id, now, rf) ==
    IF rf THEN NoSummary
    ELSE IF article_id \in DOMAIN tbl
         THEN IF now - tbl[article_id].created_at <= CACHE_DURATION_HOURS
              THEN tbl[article_id].summary
              ELSE NoSummary
         ELSE NoSummary

\* variant: a failed store read hands the error text back as the summary
get_cached_summary_errtext(tbl, article_id, now, rf) ==
    IF rf THEN "error"
    ELSE IF article_id \in DOMAIN tbl
         THEN IF now - tbl[article_id].created_at < CACHE_DURATION_HOURS
              THEN tbl[article_id].summary
              ELSE NoSummary
         ELSE NoSummary

\* get_cached_summary: rf = the store read raised (or the item was unreadable)
get_cached_summary(tbl, article_id, now, rf) ==
    IF rf THEN NoSummary
    ELSE IF article_id \in DOMAIN tbl
         THEN IF now - tbl[article_id].created_at < CACHE_DURATION_HOURS
              THEN tbl[article_id].summary
              ELSE NoSummary
         ELSE NoSummary

\* variant: the length test is made on the text as the model returned it
generate_summary_unstripped(content_len, out) ==
    IF out \in ModelFailures THEN NoSummary
    ELSE IF TextLen(out) < MIN_SUMMARY_LENGTH THEN NoSummary
         ELSE Strip(out)

\* generate_summary: out = what invoke_model answered
generate_summary(content_len, out) ==
    IF out \in ModelFailures THEN NoSummary
    ELSE IF TextLen(Strip(out)) < MIN_SUMMARY_LENGTH THEN NoSummary
         ELSE Strip(out)

\* the item cache_summary builds
cache_item(article_id, s, now) ==
    [summary |-> s, created_at |-> now, ttl |-> now + TTL_HOURS]

\* variant: the item is built and never put
cache_summary_noput(tbl, article_id, s, now, wf) == tbl

\* variant: an item that exists is updated attribute by attribute, the
\* summary first and the stamps left for a later request
cache_summary_update(tbl, article_id, s, now, wf) ==
    IF wf THEN tbl
    ELSE [x \in DOMAIN tbl \cup {article_id} |->
            IF x = article_id
            THEN IF article_id \in DOMAIN tbl
                 THEN [tbl[article_id] EXCEPT !.summary = s]
                 ELSE cache_item(article_id, s, now)
            ELSE tbl[x]]

\* cache_summary: wf = put_item raised (swallowed)
cache_summary(tbl, article_id, s, now, wf) ==
    IF wf THEN tbl
    ELSE [x \in DOMAIN tbl \cup {article_id} |->
            IF x = article_id THEN cache_item(article_id, s, now) ELSE tbl[x]]

NoStep == [op |-> "none", id |-> NoId, ret |-> NoSummary, failed |-> FALSE]

NoResults == [new_summaries |-> 0, cached_summaries |-> 0, errors |-> <<>>]

NoBatchResp == [statusCode |-> 0, processed |-> 0, summaries_generated |-> 0,
                cached_summaries |-> 0, errors |-> <<>>]

NoPrev == [done |-> FALSE, articles |-> <<>>, new_summaries |-> 0,
           wfailed |-> FALSE, start |-> 0]

NoFlags == [rfailed |-> FALSE, wfailed |-> FALSE, start |-> 0]

NoApiResp == [kind |-> "none", statusCode |-> 0, cors |-> FALSE, id |-> NoId,
              summary |-> NoSummary, created_at |-> 0, cached |-> FALSE,
              summaries |-> <<>>, found |-> 0, not_found |-> 0,
              total_requested |-> 0]

\* continue with the next article of the for loop
NextArticle ==
    /\ idx' = idx + 1
    /\ pc' = "check"
    /\ summary' = NoSummary

-----------------------------------------------------------------------------
(* Batch summarizer: lambda_handler and process_articles_batch *)

\* variant: lambda_handler without the 'if not articles' test
StartRun_unchecked(arts, batch_size) ==
    /\ IF FALSE
       THEN /\ batch_resp' = [NoBatchResp EXCEPT !.statusCode = 400]
            /\ pc' = "done"
            /\ articles' = <<>>
       ELSE /\ batch_resp' = NoBatchResp
            /\ pc' = "check"
            /\ articles' =
                   LET size == Min(batch_size, MAX_ARTICLES_PER_BATCH)
                   IN  IF Len(arts) > size THEN SliceTo(arts, size) ELSE arts
    /\ idx' = 1
    /\ results' = NoResults
    /\ summary' = NoSummary
    /\ invocations' = 0
    /\ runflags' = [NoFlags EXCEPT !.start = clock]
    /\ step' = NoStep
    /\ api_resp' = NoApiResp
    /\ UNCHANGED <<clock, ticks, table, puts, reported>>
    /\ UNCHANGED <<recap_vars, other_vars>>

\* lambda_handler from its entry to the call of process_articles_batch
StartRun(arts, batch_size) ==
    /\ IF arts = <<>>
       THEN /\ batch_resp' = [NoBatchResp EXCEPT !.statusCode = 400]
            /\ pc' = "done"
            /\ articles' = <<>>
       ELSE /\ batch_resp' = NoBatchResp
            /\ pc' = "check"
            /\ articles' =
                   LET size == Min(batch_size, MAX_ARTICLES_PER_BATCH)
                   IN  IF Len(arts) > size THEN SliceTo(arts, size) ELSE arts
    /\ idx' = 1
    /\ results' = NoResults
    /\ summary' = NoSummary
    /\ invocations' = 0
    /\ runflags' = [NoFlags EXCEPT !.start = clock]
    /\ step' = NoStep
    /\ api_resp' = NoApiResp
    /\ UNCHANGED <<clock, ticks, table, puts, reported>>
    /\ UNCHANGED <<recap_vars, other_vars>>

\* the batch lambda is invoked with an event
BatchStart(arts, batch_size) ==
    /\ pc = "idle"
    /\ StartRun(arts, batch_size)
    /\ prev' = prev

\* the batch lambda is invoked again with the event of the run that just ended
BatchRerun ==
    /\ pc = "done"
    /\ ~prev.done
    /\ articles # <<>>
    /\ StartRun(articles, MAX_ARTICLES_PER_BATCH)
    /\ prev' = [done |-> TRUE, articles |-> articles,
                new_summaries |-> results.new_summaries,
                wfailed |-> runflags.wfailed, start |-> runflags.start]

\* one pass of the for loop up to generate_summary: id check, cache check,
\* content check
CacheCheck(rf) ==
    /\ pc = "check"
    /\ idx <= Len(articles)
    /\ LET article == articles[idx]
           cached_summary == get_cached_summary(table, article.id, clock, rf)
       IN  IF ~article.dict
           THEN \* article.get raises in the try block and again in the
                \* except clause; lambda_handler answers 500
                /\ pc' = "done"
                /\ batch_resp' = [NoBatchResp EXCEPT !.statusCode = 500]
                /\ step' = NoStep
                /\ UNCHANGED <<results, idx, summary, runflags>>
           ELSE IF article.id = NoId
           THEN /\ results' = [results EXCEPT !.errors =
                       Append(@, [kind |-> "missing_id", id |-> NoId])]
                /\ step' = NoStep
                /\ runflags' = runflags
                /\ batch_resp' = batch_resp
                /\ NextArticle
           ELSE /\ batch_resp' = batch_resp
                /\ step' = [op |-> "get", id |-> article.id,
                            ret |-> cached_summary, failed |-> rf]
                /\ runflags' = [runflags EXCEPT !.rfailed = @ \/ rf]
                /\ IF cached_summary # NoSummary
                   THEN /\ results' = [results EXCEPT !.cached_summaries = @ + 1]
                        /\ NextArticle
                   ELSE IF article.content_len = 0
                        THEN /\ results' = [results EXCEPT !.errors =
                                    Append(@, [kind |-> "no_content",
                                               id |-> article.id])]
                             /\ NextArticle
                        ELSE /\ pc' = "generate"
                             /\ UNCHANGED <<results, idx, summary>>
    /\ api_resp' = NoApiResp
    /\ UNCHANGED <<clock, ticks, table, articles, invocations, prev,
                   puts, reported>>
    /\ UNCHANGED <<recap_vars, other_vars>>

\* variant: a failed generation leaves the for loop
GenerationFailed_break(article_id) ==
    /\ results' = [results EXCEPT !.errors =
           Append(@, [kind |-> "generation_failed", id |-> article_id])]
    /\ idx' = Len(articles) + 1
    /\ pc' = "check"
    /\ summary' = NoSummary

\* variant: a failed generation is not recorded in errors
GenerationFailed_uncounted(article_id) ==
    /\ NextArticle
    /\ UNCHANGED results

\* variant: a failed generation is tried again for the same article
GenerationFailed_retry(article_id) ==
    /\ pc' = "generate"
    /\ summary' = NoSummary
    /\ UNCHANGED <<results, idx>>

\* else-branch of 'if summary': the article is recorded as failed and the
\* loop goes on
GenerationFailed(article_id) ==
    /\ results' = [results EXCEPT !.errors =
           Append(@, [kind |-> "generation_failed", id |-> article_id])]
    /\ NextArticle

\* generate_summary(content, title, category) and the test of its result
Generate(out) ==
    /\ pc = "generate"
    /\ LET article == articles[idx]
           s == generate_summary(article.content_len, out)
       IN  /\ invocations' = invocations + 1
           /\ step' = [op |-> "generate", id |-> article.id, ret |-> s,
                       failed |-> (s = NoSummary)]
           /\ IF s # NoSummary
              THEN /\ pc' = "write"
                   /\ summary' = s
                   /\ UNCHANGED <<results, idx>>
              ELSE GenerationFailed(article.id)
    /\ api_resp' = NoApiResp
    /\ UNCHANGED <<clock, ticks, table, articles, runflags, prev,
                   puts, reported, batch_resp>>
    /\ UNCHANGED <<recap_vars, other_vars>>

\* variant: cache_summary re-raises the error of put_item
cache_summary_reraises(wf) == wf

\* whether an error of put_item leaves cache_summary (its except clause
\* logs it and does not raise)
cache_summary_raises(wf) == FALSE

\* cache_summary(article_id, summary, metadata); results['new_summaries'] += 1
CacheWrite(wf) ==
    /\ pc = "write"
    /\ LET article == articles[idx]
       IN  IF cache_summary_raises(wf)
           THEN \* except clause of the for loop
                /\ results' = [results EXCEPT !.errors =
                       Append(@, [kind |-> "exception", id |-> article.id])]
                /\ step' = [op |-> "put", id |-> article.id, ret |-> summary,
                            failed |-> wf]
                /\ UNCHANGED <<table, puts, reported>>
           ELSE /\ table' = cache_summary(table, article.id, summary, clock, wf)
                /\ step' = [op |-> "put", id |-> article.id, ret |-> summary,
                            failed |-> wf]
                /\ reported' = [x \in DOMAIN reported \cup {article.id} |->
                                  IF x = article.id
                                  THEN [summary |-> summary, stored |-> ~wf]
                                  ELSE reported[x]]
                /\ puts' = IF wf THEN puts
                           ELSE [x \in DOMAIN puts \cup {article.id} |->
                                   IF x = article.id
                                   THEN [summary |-> summary, at |-> clock]
                                   ELSE puts[x]]
                /\ results' = [results EXCEPT !.new_summaries = @ + 1]
    /\ runflags' = [runflags EXCEPT !.wfailed = @ \/ wf]
    /\ NextArticle
    /\ api_resp' = NoApiResp
    /\ UNCHANGED <<clock, ticks, articles, invocations, prev, batch_resp>>
    /\ UNCHANGED <<recap_vars, other_vars>>

\* process_articles_batch returns; lambda_handler builds the 200 response
BatchReturn ==
    /\ pc = "check"
    /\ idx > Len(articles)
    /\ pc' = "done"
    /\ batch_resp' = [statusCode |-> 200,
                      processed |-> Len(articles),
                      summaries_generated |-> results.new_summaries,
                      cached_summaries |-> results.cached_summaries,
                      errors |-> results.errors]
    /\ step' = NoStep
    /\ api_resp' = NoApiResp
    /\ UNCHANGED <<clock, ticks, table, articles, idx, results, summary,
                   invocations, runflags, prev, puts, reported>>
    /\ UNCHANGED <<recap_vars, other_vars>>

-----------------------------------------------------------------------------
(* API handler *)

NoBody == "none"
BadJson == "{"
JsonIds == "ids"
NoMethod == "none"       \* event without an 'httpMethod' key

ApiEvent(m, p, id, b, ids) ==
    [httpMethod |-> m, path |-> p, article_id |-> id, body |-> b,
     article_ids |-> ids]

IdSeqsUpTo(n) == UNION {[1..k -> Ids] : k \in 0..n}

ApiEvents ==
    {ApiEvent("GET", "/summaries/", id, NoBody, <<>>) : id \in Ids \cup {NoId}}
    \cup {ApiEvent("POST", "/batch-summaries", NoId, b, <<>>) :
             b \in {NoBody, BadJson}}
    \cup {ApiEvent("POST", "/batch-summaries", NoId, JsonIds, ids) :
             ids \in IdSeqsUpTo(MaxIds)}
    \cup {ApiEvent("OPTIONS", "/summaries/", NoId, NoBody, <<>>),
          ApiEvent("GET", "/health", NoId, NoBody, <<>>),
          ApiEvent(NoMethod, "/summaries/", NoId, NoBody, <<>>)}

ApiResp(kind, status) ==
    [NoApiResp EXCEPT !.kind = kind, !.statusCode = status, !.cors = TRUE]

\* variant: a stored item is answered without the 'cached' flag
handle_single_summary_unflagged(tbl, event, fails) ==
    LET article_id == event.article_id
    IN  IF article_id = NoId THEN ApiResp("single", 400)
        ELSE IF 1 \in fails
             THEN [ApiResp("single", 500) EXCEPT !.id = article_id]
             ELSE IF article_id \in DOMAIN tbl
                  THEN [ApiResp("single", 200) EXCEPT
                           !.id = article_id,
                           !.summary = tbl[article_id].summary,
                           !.created_at = tbl[article_id].created_at]
                  ELSE [ApiResp("single", 404) EXCEPT !.id = article_id]

\* handle_single_summary: fails = the get_item calls (by position) that raise
handle_single_summary(tbl, event, fails) ==
    LET article_id == event.article_id
    IN  IF article_id = NoId THEN ApiResp("single", 400)
        ELSE IF 1 \in fails
             THEN [ApiResp("single", 500) EXCEPT !.id = article_id]
             ELSE IF article_id \in DOMAIN tbl
                  THEN [ApiResp("single", 200) EXCEPT
                           !.id = article_id,
                           !.summary = tbl[article_id].summary,
                           !.created_at = tbl[article_id].created_at,
                           !.cached = TRUE]
                  ELSE [ApiResp("single", 404) EXCEPT !.id = article_id]

\* the value handle_batch_summaries stores for the id at position p
BatchEntry(tbl, article_id, failed) ==
    IF failed
    THEN [state |-> "error", summary |-> NoSummary, created_at |-> 0]
    ELSE IF article_id \in DOMAIN tbl
         THEN [state |-> "found", summary |-> tbl[article_id].summary,
               created_at |-> tbl[article_id].created_at]
         ELSE [state |-> "null", summary |-> NoSummary, created_at |-> 0]

\* handle_batch_summaries
handle_batch_summaries(tbl, event, fails) ==
    IF event.body # JsonIds \/ event.article_ids = <<>>
    THEN ApiResp("batch", 400)
    ELSE LET article_ids == SubSeq(event.article_ids, 1,
                                   Min(Len(event.article_ids), max_batch_size))
             last(id) == CHOOSE p \in DOMAIN article_ids :
                            /\ article_ids[p] = id
                            /\ \A q \in DOMAIN article_ids :
                                  article_ids[q] = id => q <= p
             found_count == Cardinality({p \in DOMAIN article_ids :
                                p \notin fails /\ article_ids[p] \in DOMAIN tbl})
         IN  [ApiResp("batch", 200) EXCEPT
                !.summaries = [id \in {article_ids[p] : p \in DOMAIN article_ids}
                                 |-> BatchEntry(tbl, id, last(id) \in fails)],
                !.found = found_count,
                !.not_found = Len(article_ids) - found_count,
                !.total_requested = Len(article_ids)]

\* lambda_handler of the API: event['httpMethod'] raises KeyError when the
\* key is missing, and the handler's own except clause answers 500 with
\* 'headers': {'Content-Type': 'application/json'}
api_lambda_handler(tbl, event, fails) ==
    IF event.httpMethod = NoMethod
    THEN [NoApiResp EXCEPT !.kind = "handler", !.statusCode = 500]
    ELSE IF event.httpMethod = "OPTIONS" THEN ApiResp("options", 200)
    ELSE IF event.httpMethod = "GET" /\ event.path = "/summaries/"
         THEN handle_single_summary(tbl, event, fails)
         ELSE IF event.httpMethod = "POST" /\ event.path = "/batch-summaries"
              THEN handle_batch_summaries(tbl, event, fails)
              ELSE ApiResp("route", 404)

ApiRequest(event, fails) ==
    /\ api_resp' = api_lambda_handler(table, event, fails)
    /\ step' = NoStep
    /\ UNCHANGED <<clock, ticks, table, pc, articles, idx, results, summary,
                   invocations, runflags, prev, puts, reported,
                   batch_resp>>
    /\ UNCHANGED <<recap_vars, other_vars>>

-----------------------------------------------------------------------------
(* Environment: time and the store's TTL deletion *)

\* time passes between invocations and between the articles of a run
Tick(d) ==
    /\ ticks < MaxTicks
    /\ pc \in {"idle", "check", "done"}
    /\ ticks' = ticks + 1
    /\ clock' = clock + d
    /\ step' = NoStep
    /\ api_resp' = NoApiResp
    /\ UNCHANGED <<table, pc, articles, idx, results, summary, invocations,
                   runflags, prev, puts, reported, batch_resp>>
    /\ UNCHANGED <<recap_vars, other_vars>>

\* DynamoDB removes an item once its 'ttl' stamp has passed
TtlExpire(article_id) ==
    /\ article_id \in DOMAIN table
    /\ table[article_id].ttl <= clock
    /\ table' = [x \in DOMAIN table \ {article_id} |-> table[x]]
    /\ step' = NoStep
    /\ api_resp' = NoApiResp
    /\ UNCHANGED <<clock, ticks, pc, articles, idx, results, summary,
                   invocations, runflags, prev, puts, reported,
                   batch_resp>>
    /\ UNCHANGED <<recap_vars, other_vars>>

-----------------------------------------------------------------------------
(* Recap generators: tech_industry_recap, industry_weekly_recap and          *)
(* enhanced_tech_recap.  A text is the sequence of its characters; a         *)
(* publication time is counted in hours from datetime.now() (0 = now,        *)
(* -30 = thirty hours ago).                                                  *)

Upper ==
    <<"A", "B", "C", "D", "E", "F", "G", "H", "I", "J", "K", "L", "M",
      "N", "O", "P", "Q", "R", "S", "T", "U", "V", "W", "X", "Y", "Z">>

Lower ==
    <<"a", "b", "c", "d", "e", "f", "g", "h", "i", "j", "k", "l", "m",
      "n", "o", "p", "q", "r", "s", "t", "u", "v", "w", "x", "y", "z">>

\* str.lower()
lower(t) ==
    [i \in DOMAIN t |->
        IF \E k \in DOMAIN Upper : Upper[k] = t[i]
        THEN Lower[CHOOSE k \in DOMAIN Upper : Upper[k] = t[i]]
        ELSE t[i]]

\* keyword in text
contains(keyword, text) ==
    \E i \in 1..(Len(text) - Len(keyword) + 1) :
        /\ text[i] = keyword[1]
        /\ SubSeq(text, i, i + Len(keyword) - 1) = keyword

\* any(keyword in text for keyword in keywords)
any_in(keywords, text) == \E keyword \in keywords : contains(keyword, text)

\* (article['title'] + ' ' + article['description']).lower()
article_text(article) == lower(article.title \o <<" ">> \o article.description)

\* seq[:n]
Take(seq, n) == SubSeq(seq, 1, Min(n, Len(seq)))

\* TechIndustryRecap.ai_keywords
ai_keywords ==
    {<<"a","i">>,
     <<"a","r","t","i","f","i","c","i","a","l"," ","i","n","t","e","l","l","i","g","e","n","c","e">>,
     <<"o","p","e","n","a","i">>,  <<"g","p","t">>,
     <<"c","l","a","u","d","e">>,  <<"l","l","m">>,
     <<"m","a","c","h","i","n","e"," ","l","e","a","r","n","i","n","g">>,
     <<"n","e","u","r","a","l">>,  <<"c","h","a","t","b","o","t">>,
     <<"g","e","n","e","r","a","t","i","v","e">>}

\* TechIndustryRecap.crypto_keywords
crypto_keywords ==
    {<<"c","r","y","p","t","o">>,  <<"b","i","t","c","o","i","n">>,
     <<"e","t","h","e","r","e","u","m">>,
     <<"b","l","o","c","k","c","h","a","i","n">>,  <<"d","e","f","i">>,
     <<"n","f","t">>,  <<"w","e","b","3">>}

\* TechIndustryRecap.startup_keywords
startup_keywords ==
    {<<"f","u","n","d","i","n","g">>,  <<"s","t","a","r","t","u","p">>,
     <<"v","e","n","t","u","r","e">>,  <<"s","e","r","i","e","s"," ","a">>,
     <<"s","e","r","i","e","s"," ","b">>,  <<"i","p","o">>,
     <<"a","c","q","u","i","s","i","t","i","o","n">>,
     <<"m","e","r","g","e","r">>}

\* TechIndustryRecap.big_tech_keywords
big_tech_keywords ==
    {<<"a","p","p","l","e">>,  <<"g","o","o","g","l","e">>,
     <<"m","i","c","r","o","s","o","f","t">>,  <<"a","m","a","z","o","n">>,
     <<"m","e","t","a">>,  <<"t","e","s","l","a">>,
     <<"n","v","i","d","i","a">>}

\* TechIndustryRecap.security_keywords
security_keywords ==
    {<<"s","e","c","u","r","i","t","y">>,  <<"h","a","c","k">>,
     <<"b","r","e","a","c","h">>,
     <<"v","u","l","n","e","r","a","b","i","l","i","t","y">>,
     <<"c","y","b","e","r">>,  <<"p","r","i","v","a","c","y">>}

\* TechIndustryRecap.major_story_keywords
major_story_keywords ==
    {<<"r","e","l","e","a","s","e","d">>,
     <<"l","a","u","n","c","h","e","s">>,
     <<"a","n","n","o","u","n","c","e","s">>,
     <<"b","r","e","a","k","t","h","r","o","u","g","h">>,
     <<"r","e","v","o","l","u","t","i","o","n","a","r","y">>,
     <<"f","i","r","s","t">>,  <<"m","a","j","o","r">>}

\* IndustryRecapGenerator.categorize_articles: keywords['ai_llm']
weekly_ai_llm ==
    {<<"a","i">>,
     <<"a","r","t","i","f","i","c","i","a","l"," ","i","n","t","e","l","l","i","g","e","n","c","e">>,
     <<"l","l","m">>,  <<"g","p","t">>,  <<"c","l","a","u","d","e">>,
     <<"o","p","e","n","a","i">>,  <<"a","n","t","h","r","o","p","i","c">>,
     <<"m","a","c","h","i","n","e"," ","l","e","a","r","n","i","n","g">>,
     <<"n","e","u","r","a","l">>,  <<"m","o","d","e","l">>}

\* IndustryRecapGenerator.categorize_articles: keywords['funding_ipo']
weekly_funding_ipo ==
    {<<"f","u","n","d","i","n","g">>,  <<"r","a","i","s","e","d">>,
     <<"m","i","l","l","i","o","n">>,  <<"b","i","l","l","i","o","n">>,
     <<"i","n","v","e","s","t","m","e","n","t">>,  <<"i","p","o">>,
     <<"a","c","q","u","i","s","i","t","i","o","n">>,
     <<"v","a","l","u","a","t","i","o","n">>,  <<"s","e","r","i","e","s">>}

\* IndustryRecapGenerator.categorize_articles: keywords['big_tech']
weekly_big_tech ==
    {<<"a","p","p","l","e">>,  <<"g","o","o","g","l","e">>,
     <<"m","i","c","r","o","s","o","f","t">>,  <<"a","m","a","z","o","n">>,
     <<"m","e","t","a">>,  <<"t","e","s","l","a">>,
     <<"n","v","i","d","i","a">>,  <<"a","l","p","h","a","b","e","t">>}

\* IndustryRecapGenerator.categorize_articles: keywords['security']
weekly_security ==
    {<<"s","e","c","u","r","i","t","y">>,  <<"h","a","c","k">>,
     <<"b","r","e","a","c","h">>,
     <<"v","u","l","n","e","r","a","b","i","l","i","t","y">>,
     <<"c","y","b","e","r">>,  <<"m","a","l","w","a","r","e">>,
     <<"p","r","i","v","a","c","y">>}

\* IndustryRecapGenerator.categorize_articles: keywords['regulation']
weekly_regulation ==
    {<<"r","e","g","u","l","a","t","i","o","n">>,
     <<"g","o","v","e","r","n","m","e","n","t">>,
     <<"p","o","l","i","c","y">>,  <<"l","a","w">>,
     <<"c","o","m","p","l","i","a","n","c","e">>,
     <<"a","n","t","i","t","r","u","s","t">>,  <<"s","e","n","a","t","e">>}

\* IndustryRecapGenerator.categorize_articles: keywords['startups']
weekly_startups ==
    {<<"s","t","a","r","t","u","p">>,  <<"f","o","u","n","d","e","r">>,
     <<"l","a","u","n","c","h">>,  <<"d","e","b","u","t">>,
     <<"n","e","w"," ","c","o","m","p","a","n","y">>}

\* EnhancedTechRecap.analyze_article_trends: ai_terms + ai_companies
ai_terms_and_companies ==
    {<<"g","p","t">>,  <<"c","l","a","u","d","e">>,
     <<"g","e","m","i","n","i">>,  <<"l","l","m">>,
     <<"a","r","t","i","f","i","c","i","a","l"," ","i","n","t","e","l","l","i","g","e","n","c","e">>,
     <<"m","a","c","h","i","n","e"," ","l","e","a","r","n","i","n","g">>,
     <<"a","i"," ","m","o","d","e","l">>,  <<"o","p","e","n","a","i">>,
     <<"a","n","t","h","r","o","p","i","c">>,  <<"g","o","o","g","l","e">>,
     <<"m","i","c","r","o","s","o","f","t">>,  <<"n","v","i","d","i","a">>,
     <<"m","e","t","a">>}

\* EnhancedTechRecap.analyze_article_trends: security terms
security_terms ==
    {<<"h","a","c","k">>,  <<"s","e","c","u","r","i","t","y">>,
     <<"b","r","e","a","c","h">>,
     <<"v","u","l","n","e","r","a","b","i","l","i","t","y">>,
     <<"c","y","b","e","r">>}

\* EnhancedTechRecap.analyze_article_trends: funding terms
funding_terms ==
    {<<"f","u","n","d","i","n","g">>,  <<"r","a","i","s","e","s">>,
     <<"s","e","r","i","e","s">>,
     <<"i","n","v","e","s","t","m","e","n","t">>,
     <<"v","e","n","t","u","r","e">>}

\* EnhancedTechRecap.analyze_article_trends: big tech terms
big_tech_terms ==
    {<<"a","p","p","l","e">>,  <<"g","o","o","g","l","e">>,
     <<"m","i","c","r","o","s","o","f","t">>,  <<"a","m","a","z","o","n">>,
     <<"m","e","t","a">>,  <<"t","e","s","l","a">>}

\* EnhancedTechRecap.analyze_article_trends: breakthrough terms
breakthrough_terms ==
    {<<"l","a","u","n","c","h","e","s">>,
     <<"a","n","n","o","u","n","c","e","s">>,
     <<"r","e","v","e","a","l","s">>,
     <<"b","r","e","a","k","t","h","r","o","u","g","h">>,
     <<"f","i","r","s","t">>}

\* EnhancedTechRecap.analyze_article_trends: regulatory terms
regulatory_terms ==
    {<<"r","e","g","u","l","a","t","i","o","n">>,
     <<"p","o","l","i","c","y">>,
     <<"g","o","v","e","r","n","m","e","n","t">>,
     <<"c","o","n","g","r","e","s","s">>,  <<"e","u">>}

\* titles of feed entries
TitleOpenAI ==
    <<"O", "p", "e", "n", "A", "I", " ", "r", "e", "l", "e", "a", "s", "e",
      "s", " ", "n", "e", "w", " ", "m", "o", "d", "e", "l">>

TitleRaises ==
    <<"S", "t", "a", "r", "t", "u", "p", " ", "r", "a", "i", "s", "e", "s",
      " ", "$", "1", "0", "M", " ", "S", "e", "r", "i", "e", "s", " ", "A">>

TitleReading ==
    <<"W", "e", "e", "k", "e", "n", "d", " ", "r", "e", "a", "d", "i", "n",
      "g", " ", "l", "i", "s", "t">>

TitleApple ==
    <<"A", "p", "p", "l", "e", " ", "a", "n", "n", "o", "u", "n", "c", "e",
      "s", " ", "m", "a", "j", "o", "r", " ", "a", "c", "q", "u", "i", "s",
      "i", "t", "i", "o", "n">>

TitleHack ==
    <<"N", "e", "w", " ", "c", "h", "a", "t", "b", "o", "t", " ", "h", "a",
      "c", "k">>

NoText == <<>>

\* feed entries: dated = the entry has a published_parsed, titled = it has
\* a title (entry.title raises AttributeError when it has none)
Entry(title, description, dated, published) ==
    [title |-> title, description |-> description, dated |-> dated,
     published |-> published, titled |-> TRUE]

Untitled(dated, published) ==
    [title |-> NoText, description |-> NoText, dated |-> dated,
     published |-> published, titled |-> FALSE]

Entries ==
    {Entry(TitleOpenAI, NoText, TRUE, -30),
     Entry(TitleRaises, NoText, TRUE, -30),
     Entry(TitleReading, NoText, TRUE, -100),
     Entry(TitleApple, NoText, TRUE, -30),
     Entry(TitleApple, NoText, TRUE, -50),
     Entry(NoText, NoText, TRUE, -1),
     Entry(TitleHack, NoText, TRUE, -200),
     Entry(TitleReading, NoText, FALSE, 0),
     Untitled(TRUE, -30)}

\* the sources all three generators read, in the order of their lists
Sources ==
    <<[name |-> "TechCrunch", weight |-> 100],
      [name |-> "Wired", weight |-> 90]>>

SourceSet == {Sources[k] : k \in DOMAIN Sources}

\* the entries whose title can be read
TitledEntries == {e \in Entries : e.titled}

EntrySeqsUpTo(n) == UNION {[1..k -> Entries] : k \in 0..n}

\* n more entries of a feed, none of them with a keyword
Padding(n) == [i \in 1..n |-> Entry(TitleReading, NoText, TRUE, -100)]

\* what feedparser.parse gives for a source: it raises, or the entries (a
\* few entries, alone or followed by as many as a recap needs, or by more
\* than a fetcher takes from one source)
FeedsUpTo(n) ==
    {[ok |-> FALSE, entries |-> <<>>]}
    \cup {[ok |-> TRUE, entries |-> es \o Padding(p)] :
             es \in EntrySeqsUpTo(n),
             p \in {0, MIN_TECH_ARTICLES, WEEKLY_ENTRIES_PER_SOURCE + 1}}

\* the second source: it raises, or has at most one entry
WiredFeeds ==
    {[ok |-> FALSE, entries |-> <<>>], [ok |-> TRUE, entries |-> <<>>]}
    \cup {[ok |-> TRUE, entries |-> <<e>>] :
             e \in {Entry(TitleOpenAI, NoText, TRUE, -30),
                    Entry(TitleReading, NoText, TRUE, -100),
                    Entry(TitleApple, NoText, TRUE, -50),
                    Untitled(TRUE, -30)}}

Feeds ==
    {[name \in {"TechCrunch", "Wired"} |->
         IF name = "TechCrunch" THEN f1 ELSE f2] :
       f1 \in FeedsUpTo(MaxEntries), f2 \in WiredFeeds}

NoFeed ==
    [name \in {"TechCrunch", "Wired"} |-> [ok |-> TRUE, entries |-> <<>>]]

\* pub_date >= one_week_ago
in_past_week(entry) == entry.published >= -(LOOKBACK_DAYS * 24)

\* the entries of a source a fetcher turns into articles before the except
\* clause ends the source: those before the first that raises
UpToFailure(kept) ==
    LET bad == {i \in DOMAIN kept : ~kept[i].titled}
    IN  IF bad = {} THEN kept
        ELSE SubSeq(kept, 1, (CHOOSE i \in bad : \A j \in bad : i <= j) - 1)

\* a sort key is the tuple (score, published): is the key ka >= the key kb
KeyGE(ka, kb) ==
    \/ ka[1] > kb[1]
    \/ ka[1] = kb[1] /\ ka[2] >= kb[2]

\* position x put behind the positions of the sorted s whose key is >= its own
InsertDesc(x, s, keys) ==
    LET n == Cardinality({i \in DOMAIN s : KeyGE(keys[s[i]], keys[x])})
    IN  SubSeq(s, 1, n) \o <<x>> \o SubSeq(s, n + 1, Len(s))

\* the positions 1..n, greatest key first, equal keys in their order
RECURSIVE SortedPositions(_, _)
SortedPositions(keys, n) ==
    IF n = 0 THEN <<>>
    ELSE InsertDesc(n, SortedPositions(keys, n - 1), keys)

\* list.sort(key=..., reverse=True) with keys[i] the key of seq[i]
SortDesc(seq, keys) ==
    LET positions == SortedPositions(keys, Len(seq))
    IN  [i \in DOMAIN seq |-> seq[positions[i]]]

\* all_articles after the loop over the sources: per_source[k] are the
\* articles of source k
RECURSIVE Collect(_, _)
Collect(per_source, k) ==
    IF k > Len(per_source) THEN <<>>
    ELSE per_source[k] \o Collect(per_source, k + 1)

(* tech_industry_recap *)

\* TechIndustryRecap.categorize_article
categorize_article(article) ==
    LET text == article_text(article)
    IN  IF any_in(ai_keywords, text) THEN "AI & Machine Learning"
        ELSE IF any_in(crypto_keywords, text) THEN "Crypto & Web3"
        ELSE IF any_in(startup_keywords, text) THEN "Startups & Funding"
        ELSE IF any_in(big_tech_keywords, text) THEN "Big Tech"
        ELSE IF any_in(security_keywords, text) THEN "Cybersecurity"
        ELSE "General Tech"

\* TechIndustryRecap.calculate_importance_score, in hundredths (on the
\* entries above the float sums compare exactly as the hundredths do)
calculate_importance_score(article) ==
    LET text == article_text(article)
        hours_old == -article.published
    IN  article.source_weight
        + 30 * Cardinality({k \in major_story_keywords : contains(k, text)})
        + (IF any_in(ai_keywords, text) THEN 50 ELSE 0)
        + (IF any_in(big_tech_keywords, text) THEN 20 ELSE 0)
        + (IF any_in(startup_keywords, text) THEN 30 ELSE 0)
        + (IF hours_old < 24 THEN 20 ELSE IF hours_old < 72 THEN 10 ELSE 0)

\* the article fetch_past_week_articles builds for an entry
tech_article(source, entry) ==
    LET article == [title |-> entry.title, description |-> entry.description,
                    source |-> source.name, source_weight |-> source.weight,
                    published |-> entry.published]
    IN  [title |-> article.title, description |-> article.description,
         source |-> article.source, source_weight |-> article.source_weight,
         published |-> article.published,
         category |-> categorize_article(article),
         importance_score |-> calculate_importance_score(article)]

\* the article of every titled entry of every source, computed once
TechArticleOf ==
    [source \in SourceSet, entry \in TitledEntries |->
        tech_article(source, entry)]

\* if pub_date and pub_date >= one_week_ago
tech_in_window(entries) ==
    SelectSeq(entries, LAMBDA e : e.dated /\ in_past_week(e))

tech_source_articles(source, entries) ==
    LET kept == UpToFailure(tech_in_window(entries))
    IN  [i \in DOMAIN kept |-> TechArticleOf[source, kept[i]]]

\* key=lambda x: (x['importance_score'], x['published'])
importance_score_key(article) ==
    <<article.importance_score, article.published>>

\* TechIndustryRecap.fetch_past_week_articles (a source whose fetch raises
\* gives no article)
fetch_past_week_articles(fd) ==
    LET all_articles ==
            Collect([k \in DOMAIN Sources |->
                        IF fd[Sources[k].name].ok
                        THEN tech_source_articles(Sources[k],
                                                  fd[Sources[k].name].entries)
                        ELSE <<>>], 1)
    IN  SortDesc(all_articles,
                 [i \in DOMAIN all_articles |->
                     importance_score_key(all_articles[i])])

\* TechIndustryRecap.get_category_distribution
get_category_distribution(arts) ==
    [c \in {arts[i].category : i \in DOMAIN arts} |->
        Cardinality({i \in DOMAIN arts : arts[i].category = c})]

\* TechIndustryRecap.create_industry_recap_prompt: the sections of the
\* prompt, category -> the articles listed under it
create_industry_recap_prompt(arts) ==
    [c \in {cat \in {arts[i].category : i \in DOMAIN arts} :
               Cardinality({i \in DOMAIN arts : arts[i].category = cat})
                   >= MIN_SECTION_ARTICLES} |->
        Take(SelectSeq(arts, LAMBDA a : a.category = c),
             MAX_SECTION_ARTICLES)]

\* the article whose title generate_mock_industry_recap puts under WEEK'S
\* BIGGEST STORY (<<>>: the fixed sentence is used)
mock_biggest_story(arts) ==
    LET ai_stories ==
            SelectSeq(arts, LAMBDA a : a.category = "AI & Machine Learning")
    IN  IF ai_stories # <<>> THEN <<ai_stories[1]>> ELSE <<>>

\* run_industry_recap_generation, step 1
TechFetch ==
    /\ rpc = "start"
    /\ rpc' = "tech_fetched"
    /\ tech_articles' = fetch_past_week_articles(feed)
    /\ UNCHANGED <<feed, mock_headline, weekly_articles, categories, analysis,
                   biggest_story, called>>
    /\ UNCHANGED <<batch_vars, other_vars>>

\* run_industry_recap_generation after the fetch: the test of the number of
\* articles, generate_industry_recap_aws (aws_ok = it returned a recap) and,
\* when it returned None, generate_mock_industry_recap
TechRecap(aws_ok) ==
    /\ rpc = "tech_fetched"
    /\ IF Len(tech_articles) < MIN_TECH_ARTICLES
       THEN /\ rpc' = "tech_insufficient"
            /\ UNCHANGED <<mock_headline, called>>
       ELSE /\ rpc' = "tech_done"
            /\ IF aws_ok
               THEN /\ called' = {"generate_industry_recap_aws"}
                    /\ mock_headline' = mock_headline
               ELSE /\ called' = {"generate_industry_recap_aws",
                                  "generate_mock_industry_recap"}
                    /\ mock_headline' = mock_biggest_story(tech_articles)
    /\ UNCHANGED <<feed, tech_articles, weekly_articles, categories, analysis,
                   biggest_story>>
    /\ UNCHANGED <<batch_vars, other_vars>>

(* industry_weekly_recap *)

WeeklyCategories ==
    {"ai_llm", "funding_ipo", "big_tech", "startups", "security",
     "regulation", "products", "other"}

\* articles.append({...})
weekly_article(source, entry) ==
    [title |-> entry.title, description |-> entry.description,
     source |-> source.name, dated |-> entry.dated,
     published |-> entry.published]

\* feed.entries[:20] without 'if pub_date and pub_date < cutoff_date: continue'
weekly_in_window(entries) ==
    SelectSeq(Take(entries, WEEKLY_ENTRIES_PER_SOURCE),
              LAMBDA e : ~(e.dated /\ ~in_past_week(e)))

weekly_source_articles(source, entries) ==
    LET kept == UpToFailure(weekly_in_window(entries))
    IN  [i \in DOMAIN kept |-> weekly_article(source, kept[i])]

\* IndustryRecapGenerator.fetch_week_articles
fetch_week_articles(fd) ==
    Collect([k \in DOMAIN Sources |->
                IF fd[Sources[k].name].ok
                THEN weekly_source_articles(Sources[k],
                                            fd[Sources[k].name].entries)
                ELSE <<>>], 1)

\* the category of the first keyword list (in the order of the dict) with a
\* term in the text
weekly_category(article) ==
    LET text == article_text(article)
    IN  IF any_in(weekly_ai_llm, text) THEN "ai_llm"
        ELSE IF any_in(weekly_funding_ipo, text) THEN "funding_ipo"
        ELSE IF any_in(weekly_big_tech, text) THEN "big_tech"
        ELSE IF any_in(weekly_security, text) THEN "security"
        ELSE IF any_in(weekly_regulation, text) THEN "regulation"
        ELSE IF any_in(weekly_startups, text) THEN "startups"
        ELSE "other"

\* the category of every title and description, computed once
WeeklyCategoryOf ==
    [article \in {weekly_article(source, entry) :
                     source \in SourceSet, entry \in TitledEntries} |->
        weekly_category(article)]

\* IndustryRecapGenerator.categorize_articles
categorize_articles(arts) ==
    [c \in WeeklyCategories |->
        SelectSeq(arts, LAMBDA a :
                            WeeklyCategoryOf[a] = c)]

\* run_full_recap_generation, step 1
WeeklyFetch ==
    /\ rpc = "start"
    /\ rpc' = "weekly_fetched"
    /\ weekly_articles' = fetch_week_articles(feed)
    /\ UNCHANGED <<feed, tech_articles, mock_headline, categories, analysis,
                   biggest_story, called>>
    /\ UNCHANGED <<batch_vars, other_vars>>

\* run_full_recap_generation after the fetch: 'if not articles: return',
\* categorize_articles, generate_industry_summary
WeeklyCategorize ==
    /\ rpc = "weekly_fetched"
    /\ IF weekly_articles = <<>>
       THEN /\ rpc' = "weekly_insufficient"
            /\ UNCHANGED <<categories, called>>
       ELSE /\ rpc' = "weekly_done"
            /\ categories' = categorize_articles(weekly_articles)
            /\ called' = {"categorize_articles", "generate_industry_summary"}
    /\ UNCHANGED <<feed, tech_articles, mock_headline, weekly_articles,
                   analysis, biggest_story>>
    /\ UNCHANGED <<batch_vars, other_vars>>

(* enhanced_tech_recap *)

\* articles.append({...})
enhanced_article(source, entry) ==
    [title |-> entry.title, description |-> entry.description,
     source |-> source.name, published |-> entry.published]

enhanced_source_articles(source, entries) ==
    LET kept == UpToFailure(
                    SelectSeq(Take(entries, ENHANCED_ENTRIES_PER_SOURCE),
                              LAMBDA e : e.dated /\ in_past_week(e)))
    IN  [i \in DOMAIN kept |-> enhanced_article(source, kept[i])]

\* [x] if cond else []
Opt(cond, x) == IF cond THEN <<x>> ELSE <<>>

\* the categories and the importance (in tenths) analyze_article_trends
\* gives an article
analyzed(article) ==
    LET text == article_text(article)
        ai == any_in(ai_terms_and_companies, text)
        security == any_in(security_terms, text)
        funding == any_in(funding_terms, text)
        big_tech == any_in(big_tech_terms, text)
        breakthrough == any_in(breakthrough_terms, text)
        regulatory == any_in(regulatory_terms, text)
    IN  [title |-> article.title, description |-> article.description,
         source |-> article.source, published |-> article.published,
         categories |-> Opt(ai, "AI") \o Opt(security, "Security")
                        \o Opt(funding, "Funding") \o Opt(big_tech, "Big Tech")
                        \o Opt(regulatory, "Regulatory"),
         importance |-> (IF ai THEN 20 ELSE 0) + (IF security THEN 15 ELSE 0)
                        + (IF funding THEN 10 ELSE 0)
                        + (IF big_tech THEN 15 ELSE 0)
                        + (IF breakthrough THEN 10 ELSE 0)
                        + (IF regulatory THEN 10 ELSE 0)]

\* the analysis of every article a titled entry of a source gives, computed
\* once
AnalyzedOf ==
    [article \in {enhanced_article(source, entry) :
                     source \in SourceSet, entry \in TitledEntries} |->
        analyzed(article)]

\* key=lambda x: (x['importance'], x['published'])
importance_key(article) == <<article.importance, article.published>>

HasCategory(arts, c) ==
    Cardinality({i \in DOMAIN arts :
                    \E j \in DOMAIN arts[i].categories :
                        arts[i].categories[j] = c})

\* EnhancedTechRecap.analyze_article_trends
analyze_article_trends(arts) ==
    LET scored == [i \in DOMAIN arts |-> AnalyzedOf[arts[i]]]
        major_stories == SelectSeq(scored, LAMBDA a : a.importance >= 20)
    IN  [articles |-> scored,
         major_stories |->
             Take(SortDesc(major_stories,
                           [i \in DOMAIN major_stories |->
                               importance_key(major_stories[i])]),
                  MAX_MAJOR_STORIES),
         stats |-> [total_articles |-> Len(scored),
                    ai_focus |-> HasCategory(scored, "AI"),
                    security_focus |-> HasCategory(scored, "Security"),
                    funding_stories |-> HasCategory(scored, "Funding"),
                    big_tech_stories |-> HasCategory(scored, "Big Tech")]]

\* EnhancedTechRecap.fetch_and_analyze_articles
fetch_and_analyze_articles(fd) ==
    analyze_article_trends(
        Collect([k \in DOMAIN Sources |->
                    IF fd[Sources[k].name].ok
                    THEN enhanced_source_articles(Sources[k],
                                                  fd[Sources[k].name].entries)
                    ELSE <<>>], 1))

NoAnalysis == analyze_article_trends(<<>>)

\* run_enhanced_recap, step 1
EnhancedAnalyze ==
    /\ rpc = "start"
    /\ rpc' = "enhanced_analyzed"
    /\ analysis' = fetch_and_analyze_articles(feed)
    /\ UNCHANGED <<feed, tech_articles, mock_headline, weekly_articles,
                   categories, biggest_story, called>>
    /\ UNCHANGED <<batch_vars, other_vars>>

\* run_enhanced_recap after the analysis: the test of total_articles,
\* generate_with_aws_bedrock (aws_ok = it returned a recap) and, when it
\* returned None, create_realistic_industry_recap with its THIS WEEK'S HEADLINE
EnhancedRecap(aws_ok) ==
    /\ rpc = "enhanced_analyzed"
    /\ IF analysis.stats.total_articles < MIN_ENHANCED_ARTICLES
       THEN /\ rpc' = "enhanced_insufficient"
            /\ UNCHANGED <<biggest_story, called>>
       ELSE /\ rpc' = "enhanced_done"
            /\ IF aws_ok
               THEN /\ called' = {"generate_with_aws_bedrock"}
                    /\ biggest_story' = biggest_story
               ELSE /\ called' = {"generate_with_aws_bedrock",
                                  "create_realistic_industry_recap"}
                    /\ biggest_story' = Take(analysis.major_stories, 1)
    /\ UNCHANGED <<feed, tech_articles, mock_headline, weekly_articles,
                   categories, analysis>>
    /\ UNCHANGED <<batch_vars, other_vars>>

-----------------------------------------------------------------------------
(* Article identifiers: MoningAITester.fetch_latest_article *)

\* entry.link of the latest entry of a feed
Urls ==
    {<<"a">>, <<"a", "/">>, <<"a", "/", "b">>, <<"b", "/", "a">>,
     <<"a", "/", "b", "?", "a">>}

\* the code point of a character of a URL
Ord(c) ==
    CASE c = "a" -> 97
      [] c = "b" -> 98
      [] c = "/" -> 47
      [] c = "?" -> 63

\* uuid.NAMESPACE_URL, 6ba7b811-9dad-11d1-80b4-00c04fd430c8 (its leading 16
\* bits)
NAMESPACE_URL == 27559

\* width of the modelled digest: 16 bits
DIGEST_MODULUS == 65536

\* the digest uuid5 takes of the namespace followed by the name (SHA-1 in
\* the library; here a 16-bit fold over the same bytes in the same order)
RECURSIVE digest(_, _)
digest(h, bytes) ==
    IF bytes = <<>> THEN h
    ELSE digest((h * 31 + Ord(Head(bytes))) % DIGEST_MODULUS, Tail(bytes))

\* uuid.uuid5(namespace, name): the digest, stamped with version 5
uuid5(namespace, name) == [version |-> 5, value |-> digest(namespace, name)]

HexDigits ==
    <<"0", "1", "2", "3", "4", "5", "6", "7", "8", "9", "a", "b", "c", "d",
      "e", "f">>

\* str(uuid): the hexadecimal digits of the value, the version digit in its
\* place after the first group
uuid_str(u) ==
    <<HexDigits[(u.value \div 4096) + 1],
      HexDigits[((u.value \div 256) % 16) + 1], "-",
      HexDigits[u.version + 1], HexDigits[((u.value \div 16) % 16) + 1],
      HexDigits[(u.value % 16) + 1]>>

\* what os.urandom and the clock give a process when it asks
Entropy == {0, 43981}

\* variant: the identifier is a random UUID (uuid.uuid4())
article_id_uuid4(article_url, entropy) ==
    uuid_str([version |-> 4, value |-> entropy])

\* article_id = str(uuid.uuid5(uuid.NAMESPACE_URL, article_url)); entropy is
\* what the process could draw on, and uuid5 does not
article_id_uuid5(article_url, entropy) ==
    uuid_str(uuid5(NAMESPACE_URL, article_url))

\* fetch_latest_article returns the latest article of the first feed that
\* answers, article_url its link, in some run of the tester
fetch_latest_article(article_url, entropy) ==
    /\ Len(derived) < MaxFetches
    /\ derived' = Append(derived, [url |-> article_url,
                                   id |-> article_id_uuid5(article_url, entropy),
                                   entropy |-> entropy])
    /\ UNCHANGED <<calls, written, observed, prompts>>
    /\ UNCHANGED <<batch_vars, recap_vars>>

-----------------------------------------------------------------------------
(* Concurrent callers of the cache *)

Callers == {"run1", "run2"}

NoItem == [summary |-> NoSummary, created_at |-> 0, ttl |-> 0]

NoCall == [pc |-> "idle", id |-> NoId, item |-> NoItem]

\* nothing but the batch lambda, the API or a recap generator runs
OtherIdle ==
    /\ derived = <<>>
    /\ calls = [c \in Callers |-> NoCall]
    /\ written = <<>>
    /\ observed = <<>>
    /\ prompts = <<>>

\* cache_summary up to its put_item call: a caller (a batch run) builds the
\* item of an article from the summary and the time it reads now
cache_summary_build(c, article_id, s) ==
    /\ calls[c].pc = "idle"
    /\ Len(written) + Cardinality({x \in Callers : calls[x].pc = "built"})
           < MaxPuts
    /\ calls' = [calls EXCEPT ![c] = [pc |-> "built", id |-> article_id,
                                      item |-> cache_item(article_id, s, clock)]]
    /\ UNCHANGED <<derived, written, observed, prompts>>
    /\ UNCHANGED <<batch_vars, recap_vars>>

\* table.put_item(Item=item) of cache_summary and its return: wf = put_item
\* raised, which the except clause swallows
cache_summary_put(c, wf) ==
    /\ calls[c].pc = "built"
    /\ table' = cache_summary(table, calls[c].id, calls[c].item.summary,
                              calls[c].item.created_at, wf)
    /\ written' = IF wf THEN written
                  ELSE Append(written, [id |-> calls[c].id,
                                        item |-> calls[c].item])
    /\ calls' = [calls EXCEPT ![c] = NoCall]
    /\ UNCHANGED <<derived, observed, prompts>>
    /\ UNCHANGED <<clock, ticks, pc, articles, idx, results, summary,
                   invocations, runflags, prev, step, puts, reported,
                   batch_resp, api_resp>>
    /\ UNCHANGED recap_vars

\* table.get_item(Key={'article_id': article_id}) of get_cached_summary or of
\* the API handler, made while the callers run
get_item(article_id) ==
    /\ Len(observed) < MaxReads
    /\ article_id \in DOMAIN table
    /\ observed' = Append(observed, [id |-> article_id,
                                     item |-> table[article_id]])
    /\ UNCHANGED <<derived, calls, written, prompts>>
    /\ UNCHANGED <<batch_vars, recap_vars>>

-----------------------------------------------------------------------------
(* The article body of a summarization prompt *)

\* max_content_length of generate_summary and max_length of
\* generate_summary_on_demand, in characters
max_content_length == 4000
max_length == 4000

\* len("...")
ELLIPSIS_LENGTH == 3

\* content lengths around the limits, in characters
ContentLengths == {0, 1, 5, max_content_length - 1,
                   max_content_length, max_content_length + 1,
                   max_content_length + ELLIPSIS_LENGTH,
                   max_content_length + ELLIPSIS_LENGTH + 1,
                   2 * max_content_length}

\* a body: how many leading characters of the content it keeps and how many
\* characters follow them
BodyLen(body) == body.kept + body.appended

\* variant: the content is never cut
truncate_content_whole(content_len) ==
    [kept |-> content_len, appended |-> 0]

\* generate_summary: if len(content) > max_content_length:
\*     content = content[:max_content_length] + "..."
truncate_content(content_len) ==
    IF content_len > max_content_length
    THEN [kept |-> max_content_length, appended |-> ELLIPSIS_LENGTH]
    ELSE [kept |-> content_len, appended |-> 0]

\* generate_summary_on_demand: if len(content) > max_length:
\*     content = content[:max_length] + "..."
truncate_on_demand(content_len) ==
    IF content_len > max_length
    THEN [kept |-> max_length, appended |-> ELLIPSIS_LENGTH]
    ELSE [kept |-> content_len, appended |-> 0]

\* generate_summary up to create_user_prompt(content, title): the body of the
\* user prompt of an article of content_len characters
generate_summary_prompt(content_len) ==
    /\ Len(prompts) < MaxPrompts
    /\ prompts' = Append(prompts, [by |-> "generate_summary",
                                   content_len |-> content_len,
                                   body |-> truncate_content(content_len)])
    /\ UNCHANGED <<derived, calls, written, observed>>
    /\ UNCHANGED <<batch_vars, recap_vars>>

\* generate_summary_on_demand up to its user_prompt
generate_summary_on_demand(content_len) ==
    /\ Len(prompts) < MaxPrompts
    /\ prompts' = Append(prompts, [by |-> "generate_summary_on_demand",
                                   content_len |-> content_len,
                                   body |-> truncate_on_demand(content_len)])
    /\ UNCHANGED <<derived, calls, written, observed>>
    /\ UNCHANGED <<batch_vars, recap_vars>>

\* no recap generator is running
RecapIdle ==
    /\ feed = NoFeed
    /\ rpc = "off"
    /\ tech_articles = <<>>
    /\ mock_headline = <<>>
    /\ weekly_articles = <<>>
    /\ categories = categorize_articles(<<>>)
    /\ analysis = NoAnalysis
    /\ biggest_story = <<>>
    /\ called = {}
    /\ OtherIdle

-----------------------------------------------------------------------------

\* items left in the table by earlier invocations: one past its ttl, one
\* exactly CACHE_DURATION_HOURS old, one an hour younger
InitCreated == {0, TTL_HOURS - CACHE_DURATION_HOURS,
                TTL_HOURS - CACHE_DURATION_HOURS + 1}

InitTables ==
    {<<>>} \cup {[x \in {"a"} |-> cache_item("a", "s1", c)] : c \in InitCreated}

Init ==
    /\ clock = TTL_HOURS
    /\ ticks = 0
    /\ table \in InitTables
    /\ pc = "idle"
    /\ articles = <<>>
    /\ idx = 1
    /\ results = NoResults
    /\ summary = NoSummary
    /\ invocations = 0
    /\ runflags = NoFlags
    /\ prev = NoPrev
    /\ step = NoStep
    /\ puts = [x \in DOMAIN table |->
                 [summary |-> table[x].summary, at |-> table[x].created_at]]
    /\ reported = <<>>
    /\ batch_resp = NoBatchResp
    /\ api_resp = NoApiResp
    /\ RecapIdle

BatchNext ==
    \/ \E rf \in BOOLEAN : CacheCheck(rf)
    \/ \E out \in ModelOutputs : Generate(out)
    \/ \E wf \in BOOLEAN : CacheWrite(wf)
    \/ BatchReturn

EnvNext ==
    \/ \E d \in TickSteps : Tick(d)
    \/ \E id \in Ids : TtlExpire(id)

\* time passes between two invocations (the clock read once per invocation)
TickBetween == \E d \in TickSteps : pc \in {"idle", "done"} /\ Tick(d)

EnvNextBetween ==
    \/ TickBetween
    \/ \E id \in Ids : TtlExpire(id)

\* the get_item calls of a request, by position
StoreCalls(event) ==
    IF event.httpMethod = "GET" /\ event.path = "/summaries/" /\ event.article_id # NoId
    THEN {1}
    ELSE IF event.httpMethod = "POST" /\ event.path = "/batch-summaries"
            /\ event.body = JsonIds
         THEN DOMAIN event.article_ids
         ELSE {}

\* one invocation of the batch lambda, with any event
Next ==
    \/ \E arts \in BatchesUpTo(MaxBatch), bs \in {1, MAX_ARTICLES_PER_BATCH} :
          BatchStart(arts, bs)
    \/ BatchNext
    \/ EnvNext

Spec == Init /\ [][Next]_vars

\* the batch lambda invoked twice with the same event of summarizable
\* articles, on an empty table (no item comes near its ttl between the runs)
RerunBatches ==
    UNION {[1..k -> {art \in Articles : art.id # NoId /\ art.content_len > 0}] :
              k \in 1..MaxBatch}

InitRerun == Init /\ table = <<>>

NextRerun ==
    \/ \E arts \in RerunBatches : BatchStart(arts, MAX_ARTICLES_PER_BATCH)
    \/ BatchRerun
    \/ BatchNext
    \/ TickBetween

SpecRerun == InitRerun /\ [][NextRerun]_vars

\* the batch lambda invoked with one article, and the API serving requests
\* between the runs (the table changes in CacheWrite alone, and every table a
\* run passes through is also the table of a state with pc = "done").  A
\* request changes api_resp alone, so the requests are independent of each
\* other and each is taken from a state in which none has been answered.
NextApi ==
    \/ \E art \in Articles : BatchStart(<<art>>, MAX_ARTICLES_PER_BATCH)
    \/ BatchNext
    \/ EnvNextBetween
    \/ \E event \in ApiEvents : \E fails \in SUBSET StoreCalls(event) :
          /\ pc \in {"idle", "done"}
          /\ api_resp = NoApiResp
          /\ ApiRequest(event, fails)

SpecApi == Init /\ [][NextApi]_vars

\* one run of one of the three recap generators on what the feeds return
InitRecap ==
    /\ clock = TTL_HOURS
    /\ ticks = 0
    /\ table = <<>>
    /\ pc = "idle"
    /\ articles = <<>>
    /\ idx = 1
    /\ results = NoResults
    /\ summary = NoSummary
    /\ invocations = 0
    /\ runflags = NoFlags
    /\ prev = NoPrev
    /\ step = NoStep
    /\ puts = <<>>
    /\ reported = <<>>
    /\ batch_resp = NoBatchResp
    /\ api_resp = NoApiResp
    /\ feed \in Feeds
    /\ rpc = "start"
    /\ tech_articles = <<>>
    /\ mock_headline = <<>>
    /\ weekly_articles = <<>>
    /\ categories = categorize_articles(<<>>)
    /\ analysis = NoAnalysis
    /\ biggest_story = <<>>
    /\ called = {}
    /\ OtherIdle

NextRecap ==
    \/ TechFetch
    \/ \E aws_ok \in BOOLEAN : TechRecap(aws_ok)
    \/ WeeklyFetch
    \/ WeeklyCategorize
    \/ EnhancedAnalyze
    \/ \E aws_ok \in BOOLEAN : EnhancedRecap(aws_ok)

SpecRecap == InitRecap /\ [][NextRecap]_vars

\* an empty table and nothing running
InitEmpty ==
    /\ clock = TTL_HOURS
    /\ ticks = 0
    /\ table = <<>>
    /\ pc = "idle"
    /\ articles = <<>>
    /\ idx = 1
    /\ results = NoResults
    /\ summary = NoSummary
    /\ invocations = 0
    /\ runflags = NoFlags
    /\ prev = NoPrev
    /\ step = NoStep
    /\ puts = <<>>
    /\ reported = <<>>
    /\ batch_resp = NoBatchResp
    /\ api_resp = NoApiResp
    /\ RecapIdle

\* runs of the tester, each fetching the latest article of a feed
NextId ==
    \E article_url \in Urls, entropy \in Entropy :
        fetch_latest_article(article_url, entropy)

SpecId == InitEmpty /\ [][NextId]_vars

\* summarization prompts built for articles of any of the content lengths
NextPrompt ==
    \/ \E content_len \in ContentLengths : generate_summary_prompt(content_len)
    \/ \E content_len \in ContentLengths :
          generate_summary_on_demand(content_len)

SpecPrompt == InitEmpty /\ [][NextPrompt]_vars

\* two batch runs caching summaries and readers of the table, interleaved in
\* any order while time passes
NextConcurrent ==
    \/ \E c \in Callers, article_id \in Ids, s \in {"s1", "s2"} :
          cache_summary_build(c, article_id, s)
    \/ \E c \in Callers, wf \in BOOLEAN : cache_summary_put(c, wf)
    \/ \E article_id \in Ids : get_item(article_id)
    \/ \E d \in TickSteps : Tick(d)

SpecConcurrent == InitEmpty /\ [][NextConcurrent]_vars

\* one run of one entry point on an empty table: a recap generator on what
\* the feeds return, or the batch lambda on any event (records that are no
\* JSON objects and any batch_size included)
NextEvent ==
    \/ pc = "idle" /\ NextRecap
    \/ \E arts \in EventsUpTo(MaxBatch), bs \in BatchSizes :
          /\ rpc = "start"
          /\ feed = NoFeed
          /\ BatchStart(arts, bs)
    \/ BatchNext

SpecEvent == InitRecap /\ [][NextEvent]_vars

\* the steps the invocation takes by itself; CacheCheck, Generate and
\* CacheWrite end with the return of get_item, invoke_model and put_item,
\* calls made without a timeout of their own, and none of the three has a
\* step that gives the call up
OwnSteps == BatchReturn

\* one entry point where the invocation takes its own steps, the store and
\* the summarization capability answering or not
SpecUnanswered == InitRecap /\ [][NextEvent]_vars /\ WF_vars(OwnSteps)

\* the same where every call is answered or fails in the end
SpecAnswered == InitRecap /\ [][NextEvent]_vars /\ WF_vars(BatchNext)

-----------------------------------------------------------------------------
(* Summary cache: get after put *)

\* the item a successful put of summary s at time t leaves in the table
PutItem(p) ==
    [summary |-> p.summary, created_at |-> p.at,
     ttl |-> p.at + TTL_DAYS * 24]

\* what C1 says of a get_cached_summary call that has just returned, for an
\* id whose last successful put is puts[id]
GetAfterPut ==
    LET p == puts[step.id]
        age == clock - p.at
    IN  /\ age < CACHE_DURATION_HOURS => step.ret = p.summary
        /\ age >= CACHE_DURATION_HOURS => step.ret = NoSummary
        /\ age < TTL_HOURS =>
              step.id \in DOMAIN table /\ table[step.id] = PutItem(p)

-----------------------------------------------------------------------------
(* Batch summarizer: failure isolation *)

Processed == results.new_summaries + results.cached_summaries + Len(results.errors)

\* a step of an article whose generation fails: the cache check that misses
\* changes nothing, and the failed generation adds the article to the errors
\* and moves to the next article, the table and the counters being untouched
IsolatedFailureStep ==
    /\ (pc = "check" /\ pc' = "generate") =>
          /\ table' = table /\ results' = results
          /\ idx' = idx /\ articles' = articles
    /\ (pc = "generate" /\ step'.op = "generate" /\ step'.failed) =>
          /\ results' = [results EXCEPT !.errors =
                Append(@, [kind |-> "generation_failed",
                           id |-> articles[idx].id])]
          /\ table' = table /\ puts' = puts
          /\ articles' = articles
          /\ idx' = idx + 1 /\ pc' = "check"

\* every article of a finished run was processed and counted once
AllProcessed ==
    (pc = "done" /\ articles # <<>>) =>
        /\ idx = Len(articles) + 1
        /\ batch_resp.statusCode = 200
        /\ batch_resp.processed = Len(articles)
        /\ Processed = Len(articles)

\* C2: an article whose generation fails (capability error, malformed
\* response, summary rejected as too short) is recorded as failed, leaves the
\* table and the counters of the other outcomes as they were, and the loop
\* goes on with the next article, so that every article of the batch is
\* processed with the outcome it has without the failing one.
C2_FailureIsolation == [][IsolatedFailureStep]_vars /\ []AllProcessed

\* C2 witness: a finished run of two articles, the first failed in generation,
\* the second newly generated and stored
C2_Witness ==
    /\ pc = "done" /\ Len(articles) = 2
    /\ articles[1].id # articles[2].id
    /\ results.errors = <<[kind |-> "generation_failed", id |-> articles[1].id]>>
    /\ results.new_summaries = 1
    /\ articles[2].id \in DOMAIN reported

-----------------------------------------------------------------------------
(* Batch summarizer: running the same batch again *)

RerunDone ==
    /\ pc = "done" /\ prev.done
    /\ articles = prev.articles
    /\ prev.new_summaries = Len(prev.articles)
    /\ clock - prev.start < CACHE_DURATION_HOURS

AllHits ==
    /\ results.cached_summaries = Len(articles)
    /\ results.new_summaries = 0
    /\ invocations = 0

\* C3 as stated: the same n articles run again within the freshness window,
\* after a run that reported all n as newly generated, give n cache hits, no
\* new generation and no call of the model.
C3_Original == RerunDone => AllHits

\* C3 amended: the same, provided no cache write of the first run and no
\* cache read of the second run failed.
C3_RerunAllHits ==
    (RerunDone /\ ~prev.wfailed /\ ~runflags.rfailed) => AllHits

\* C3 witness: two articles, all new in the first run, both hits in the second
C3_Witness ==
    /\ RerunDone /\ ~prev.wfailed /\ ~runflags.rfailed
    /\ Len(articles) = 2 /\ articles[1].id # articles[2].id
    /\ results.cached_summaries = 2

-----------------------------------------------------------------------------
(* Freshness of what is served *)

Fresh(created_at) == clock - created_at < CACHE_DURATION_HOURS

\* C4: no reader of the cache serves a summary older than the freshness
\* window: not the batch summarizer's cache check, not GET
\* /summaries/{article_id}, not POST /batch-summaries.
C4_NoStaleServed ==
    /\ (step.op = "get" /\ step.ret # NoSummary) =>
          step.id \in DOMAIN table /\ Fresh(table[step.id].created_at)
    /\ (api_resp.kind = "single" /\ api_resp.statusCode = 200) =>
          Fresh(api_resp.created_at)
    /\ (api_resp.kind = "batch" /\ api_resp.statusCode = 200) =>
          \A id \in DOMAIN api_resp.summaries :
              api_resp.summaries[id].state = "found" =>
                  Fresh(api_resp.summaries[id].created_at)

-----------------------------------------------------------------------------
(* Store failures *)

\* what a cache write that fails does: the article is counted as newly
\* generated, nothing is added to the errors, and the loop goes on
SwallowedWriteStep ==
    (pc = "write" /\ step'.op = "put" /\ step'.failed) =>
        /\ results' = [results EXCEPT !.new_summaries = @ + 1]
        /\ idx' = idx + 1 /\ pc' = "check"
        /\ articles' = articles
        /\ table' = table

WriteFailedRunReturns ==
    (pc = "done" /\ runflags.wfailed) =>
        /\ batch_resp.statusCode = 200
        /\ batch_resp.processed = Len(articles)
        /\ batch_resp.summaries_generated = results.new_summaries
        /\ Processed = Len(articles)

\* C5: a cache write failure is swallowed: the run does not abort, the
\* articles after it are processed, and the run returns its counts (status 200).
C5_WriteFailureSwallowed ==
    [][SwallowedWriteStep]_vars /\ []WriteFailedRunReturns

\* C5 witness: a finished run of two articles whose first cache write failed
\* and whose second article was then generated and stored
C5_Witness ==
    /\ pc = "done" /\ runflags.wfailed /\ Len(articles) = 2
    /\ articles[1].id # articles[2].id
    /\ results.new_summaries = 2
    /\ articles[1].id \notin DOMAIN table
    /\ articles[2].id \in DOMAIN table
    /\ batch_resp.statusCode = 200

\* what a cache read that fails does: the article is not a hit, it goes to
\* generation (or fails for want of content), and the read failure adds no
\* error of its own
ReadFailureStep ==
    (pc = "check" /\ step'.op = "get" /\ step'.failed) =>
        /\ step'.ret = NoSummary
        /\ results'.cached_summaries = results.cached_summaries
        /\ results'.new_summaries = results.new_summaries
        /\ table' = table
        /\ IF articles[idx].content_len = 0
           THEN /\ results'.errors = Append(results.errors,
                       [kind |-> "no_content", id |-> articles[idx].id])
                /\ idx' = idx + 1 /\ pc' = "check"
           ELSE /\ results'.errors = results.errors
                /\ idx' = idx /\ pc' = "generate"

\* C6: a cache read failure is treated as a miss: the article goes on to
\* generation, the batch continues, and the read failure is not recorded as
\* a failure of the article.
C6_ReadFailureIsMiss == [][ReadFailureStep]_vars /\ []AllProcessed

\* C6 witness: the read of a fresh stored entry failed and the article is
\* about to be generated
C6_Witness ==
    /\ step.op = "get" /\ step.failed
    /\ pc = "generate"
    /\ step.id \in DOMAIN table
    /\ Fresh(table[step.id].created_at)
    /\ results.errors = <<>>

-----------------------------------------------------------------------------
(* Batch summarizer to API handler *)

\* GET /summaries/{id} answers 200 with the summary the batch reported
ServedAsReported ==
    /\ api_resp.statusCode = 200
    /\ api_resp.summary = reported[api_resp.id].summary
    /\ api_resp.cached

-----------------------------------------------------------------------------
(* Classifiers: every article gets a category *)

\* TechIndustryRecap.categorize_article gave every fetched article a category
TechCategorized ==
    \A i \in DOMAIN tech_articles : tech_articles[i].category # ""

\* IndustryRecapGenerator.categorize_articles put every fetched article in
\* the list of some category
WeeklyCategorized ==
    rpc = "weekly_done" =>
        \A i \in DOMAIN weekly_articles :
            \E c \in DOMAIN categories :
                \E j \in DOMAIN categories[c] :
                    categories[c][j] = weekly_articles[i]

\* EnhancedTechRecap.analyze_article_trends gave every article at least one
\* category
EnhancedCategorized ==
    \A i \in DOMAIN analysis.articles :
        analysis.articles[i].categories # <<>>

\* C8 (as claimed): for every text, the empty one included, no article leaves
\* categorize_article, categorize_articles or analyze_article_trends without
\* at least one category
C8_NonEmptyCategory ==
    TechCategorized /\ WeeklyCategorized /\ EnhancedCategorized

-----------------------------------------------------------------------------
(* Classifier: the three-article scenario *)

\* the fetched articles are the three of the scenario
IsScenario ==
    /\ rpc \in {"tech_fetched", "tech_done"}
    /\ Len(tech_articles) = 3
    /\ {tech_articles[i].title : i \in DOMAIN tech_articles}
          = {TitleOpenAI, TitleRaises, TitleReading}

CategoryOf(title) ==
    tech_articles[CHOOSE i \in DOMAIN tech_articles :
                      tech_articles[i].title = title].category

\* C9 (as claimed): of the articles titled "OpenAI releases new model",
\* "Startup raises $10M Series A" and one without a keyword, the classifier
\* of tech_industry_recap puts the first in AI & Machine Learning, the second
\* in Startups & Funding and the third in General Tech, one article in each
C9_ScenarioCounts ==
    IsScenario =>
        /\ CategoryOf(TitleOpenAI) = "AI & Machine Learning"
        /\ CategoryOf(TitleRaises) = "Startups & Funding"
        /\ CategoryOf(TitleReading) = "General Tech"
        /\ get_category_distribution(tech_articles)
              = [c \in {"AI & Machine Learning", "Startups & Funding",
                        "General Tech"} |-> 1]

-----------------------------------------------------------------------------
(* Recap: the headline *)

\* the key (score, published) hkey is the greatest of keys: no article has a
\* greater score, and none with the same score is more recent
TopStory(hkey, keys) == \A i \in DOMAIN keys : KeyGE(hkey, keys[i])

\* the article generate_mock_industry_recap names as the week's biggest story
MockHeadlineIsTop ==
    (rpc = "tech_done" /\ mock_headline # <<>>) =>
        TopStory(importance_score_key(mock_headline[1]),
                 [i \in DOMAIN tech_articles |->
                     importance_score_key(tech_articles[i])])

\* the article create_realistic_industry_recap puts under THIS WEEK'S HEADLINE
EnhancedHeadlineIsTop ==
    (rpc = "enhanced_done" /\ biggest_story # <<>>) =>
        TopStory(importance_key(biggest_story[1]),
                 [i \in DOMAIN analysis.articles |->
                     importance_key(analysis.articles[i])])

\* C10 (as claimed): the headline a recap names is the article with the
\* greatest importance score of all processed articles and, among those with
\* that score, the most recently published one
C10_HeadlineIsMax == MockHeadlineIsTop /\ EnhancedHeadlineIsTop

-----------------------------------------------------------------------------

\* the except clause of a source ran: feedparser.parse raised, or reading an
\* entry of the source did
Raised(source_feed, in_window) ==
    \/ ~source_feed.ok
    \/ \E i \in DOMAIN in_window : ~in_window[i].titled

NoneFrom(arts, source) ==
    \A i \in DOMAIN arts : arts[i].source # source.name

\* C11 (as claimed): a source whose fetch or parse failed contributes no
\* article to the list a recap fetcher returns
C11_FailedSourceContributesNothing ==
    \A k \in DOMAIN Sources :
        LET source == Sources[k]
            source_feed == feed[source.name]
        IN  /\ (/\ rpc \in {"tech_fetched", "tech_insufficient", "tech_done"}
                /\ Raised(source_feed, tech_in_window(source_feed.entries)))
               => NoneFrom(tech_articles, source)
            /\ (/\ rpc \in {"weekly_fetched", "weekly_insufficient",
                             "weekly_done"}
                /\ Raised(source_feed,
                          weekly_in_window(source_feed.entries)))
               => NoneFrom(weekly_articles, source)

-----------------------------------------------------------------------------

\* the batch lambda is invoked with an event that has no articles
EmptyEventStep == \E bs \in BatchSizes : BatchStart(<<>>, bs)

\* a recap runner finds that no article was fetched
NoArticlesStep ==
    \/ rpc = "tech_fetched" /\ tech_articles = <<>> /\ rpc' # rpc
    \/ rpc = "weekly_fetched" /\ weekly_articles = <<>> /\ rpc' # rpc
    \/ rpc = "enhanced_analyzed" /\ analysis.articles = <<>> /\ rpc' # rpc

\* C12: a run with no articles ends with an insufficient-data result: the
\* batch lambda answers 400 without a cache read or a model invocation, and
\* a recap runner returns without calling a generator
C12_NoArticlesNoGeneration ==
    [][/\ (EmptyEventStep =>
               /\ batch_resp'.statusCode = 400
               /\ pc' = "done"
               /\ step'.op = "none"
               /\ invocations' = 0
               /\ table' = table)
        /\ (NoArticlesStep =>
               /\ rpc' \in {"tech_insufficient", "weekly_insufficient",
                             "enhanced_insufficient"}
               /\ called' = {}
               /\ UNCHANGED <<mock_headline, categories, biggest_story>>)]_vars

C12_Witness ==
    /\ pc = "done"
    /\ batch_resp.statusCode = 400
    /\ invocations = 0
    /\ step.op = "none"

-----------------------------------------------------------------------------

\* the records of the processed list that are no JSON objects
Malformed == {i \in DOMAIN articles : ~articles[i].dict}

\* C13 (as claimed): lambda_handler always answers 200, 400 or 500, and a
\* batch whose only errors are confined to single articles (a malformed
\* record included) is answered 200 with every such article in errors
C13_NoFatalError ==
    pc = "done" =>
        /\ batch_resp.statusCode \in {200, 400, 500}
        /\ articles # <<>> =>
               /\ batch_resp.statusCode = 200
               /\ Len(batch_resp.errors) >= Cardinality(Malformed)

-----------------------------------------------------------------------------

\* C15 (as claimed): for any articles list and any batch_size the articles
\* handed to process_articles_batch are the first min(len(articles),
\* min(batch_size, 50)) of the event, in input order, and 'processed' is
\* their number
C15_FirstMinArticles ==
    [][/\ \A arts \in EventsUpTo(MaxBatch) \ {<<>>}, bs \in BatchSizes :
              (BatchStart(arts, bs) =>
                  articles' = SubSeq(arts, 1,
                      Min(Len(arts), Min(bs, MAX_ARTICLES_PER_BATCH))))
        /\ (BatchReturn => batch_resp'.processed = Len(articles))]_vars

-----------------------------------------------------------------------------

-----------------------------------------------------------------------------

\* the item of the last put_item for an identifier
LastWritten(article_id) ==
    LET js == {j \in DOMAIN written : written[j].id = article_id}
    IN  written[CHOOSE j \in js : \A k \in js : k <= j].item

\* C16: under concurrent use every item a read observes is the item of one
\* single put for that identifier, and once no write is in flight the entry
\* of an identifier is the item of its last put
C16_WholeItemsLastWriteWins ==
    /\ \A i \in DOMAIN observed :
           \E j \in DOMAIN written : written[j] = observed[i]
    /\ (\A c \in Callers : calls[c].pc = "idle") =>
           /\ DOMAIN table = {written[j].id : j \in DOMAIN written}
           /\ \A article_id \in DOMAIN table :
                  table[article_id] = LastWritten(article_id)

\* two puts for one identifier, the second with the older time stamp, and a
\* read after each
C16_Witness ==
    /\ Len(written) = 2
    /\ written[1].id = written[2].id
    /\ written[1].item.summary # written[2].item.summary
    /\ written[1].item.created_at > written[2].item.created_at
    /\ Len(observed) = 2
    /\ observed[1] = written[1]
    /\ observed[2] = written[2]
    /\ \A c \in Callers : calls[c].pc = "idle"

-----------------------------------------------------------------------------

\* generate_summary was called for the identifier earlier in the run: its
\* summary was counted as new, or its failure was recorded
AlreadyInvoked(article_id) ==
    \/ article_id \in DOMAIN reported
    \/ \E i \in DOMAIN results.errors :
          results.errors[i] = [kind |-> "generation_failed", id |-> article_id]

\* C17 (as claimed): within one batch run the model is invoked at most once
\* per article identifier, also when the identifier occurs more than once
C17_OncePerIdentifier ==
    [][(pc = "generate" /\ invocations' = invocations + 1)
          => ~AlreadyInvoked(articles[idx].id)]_vars

-----------------------------------------------------------------------------

\* the for loop has left the article at idx behind
ArticleDone == idx' = idx + 1 /\ pc' = "check"

\* the steps of one article: cache check, then on a hit nothing more, on a
\* miss one generation, then on success the cache write and on failure the
\* error entry
ArticlePathStep ==
    /\ (pc = "check" /\ step'.op = "get" /\ step'.ret # NoSummary) =>
           /\ ArticleDone
           /\ invocations' = invocations
           /\ table' = table
           /\ results'.errors = results.errors
    /\ (pc' = "generate" /\ pc # "generate") =>
           /\ pc = "check"
           /\ idx' = idx
           /\ step' = [op |-> "get", id |-> articles[idx].id,
                       ret |-> NoSummary, failed |-> step'.failed]
    /\ invocations' # invocations =>
           \/ pc = "idle" /\ invocations' = 0
           \/ /\ pc = "generate"
              /\ invocations' = invocations + 1
              /\ step'.op = "generate" /\ step'.id = articles[idx].id
              /\ \/ /\ ~step'.failed
                    /\ pc' = "write" /\ idx' = idx /\ summary' = step'.ret
                 \/ /\ step'.failed
                    /\ ArticleDone
                    /\ Len(results'.errors) = Len(results.errors) + 1
    /\ (pc' = "write" /\ pc # "write") =>
           /\ pc = "generate"
           /\ step' = [op |-> "generate", id |-> articles[idx].id,
                       ret |-> summary', failed |-> FALSE]
    /\ (pc = "write" /\ pc' # "write") =>
           /\ ArticleDone
           /\ step'.op = "put" /\ step'.id = articles[idx].id
           /\ step'.ret = summary
    /\ \A x \in DOMAIN table' :
           (x \notin DOMAIN table \/ table'[x] # table[x]) =>
               /\ pc = "write"
               /\ x = articles[idx].id
               /\ table'[x].summary = summary
    /\ pc \in {"check", "generate", "write"} => idx' >= idx

\* C18: the model is never invoked for an article whose cache check hit, at
\* most once per article on a miss (a failed generation is not retried), and
\* the cache is written only directly after the successful generation for
\* the same article
C18_ArticlePath ==
    [][/\ ArticlePathStep
        /\ invocations' <= (IF pc' = "write" THEN idx' ELSE idx' - 1)]_vars

C18_Witness ==
    /\ pc = "done"
    /\ batch_resp.statusCode = 200
    /\ batch_resp.cached_summaries = 1
    /\ batch_resp.summaries_generated = 1
    /\ invocations = 1
    /\ step.op = "none"

-----------------------------------------------------------------------------

\* the texts of the model that are shorter than 20 characters once trimmed
ShortTexts == {out \in ModelTexts : TextLen(Strip(out)) < MIN_SUMMARY_LENGTH}

\* C19: a generated summary shorter than 20 characters after trimming is
\* rejected: the article is recorded as failed, it is not counted as a new
\* summary and nothing is written to the cache for it
C19_ShortSummaryRejected ==
    [][\A out \in ShortTexts :
          Generate(out) =>
              /\ step'.failed /\ step'.ret = NoSummary
              /\ results'.errors =
                     Append(results.errors, [kind |-> "generation_failed",
                                             id |-> articles[idx].id])
              /\ results'.new_summaries = results.new_summaries
              /\ table' = table
              /\ puts' = puts
              /\ idx' = idx + 1 /\ pc' = "check"]_vars

C19_Witness ==
    /\ pc = "done"
    /\ batch_resp.statusCode = 200
    /\ batch_resp.summaries_generated = 0
    /\ invocations = 1
    /\ Len(batch_resp.errors) = 1
    /\ batch_resp.errors[1].kind = "generation_failed"
    /\ batch_resp.errors[1].id \notin DOMAIN table

-----------------------------------------------------------------------------

\* the score in hundredths with every keyword class counted once
ScoreByClass(article) ==
    LET text == article_text(article)
        hours_old == -article.published
    IN  article.source_weight
        + (IF any_in(major_story_keywords, text) THEN 30 ELSE 0)
        + (IF any_in(ai_keywords, text) THEN 50 ELSE 0)
        + (IF any_in(big_tech_keywords, text) THEN 20 ELSE 0)
        + (IF any_in(startup_keywords, text) THEN 30 ELSE 0)
        + (IF hours_old < 24 THEN 20 ELSE IF hours_old < 72 THEN 10 ELSE 0)

\* C20 (as claimed): the importance score is the source weight plus the
\* bonus of each keyword class at most once (+0.5 AI, +0.3 major story,
\* +0.2 big tech, +0.3 funding) plus one recency bonus (+0.2 under 24 hours,
\* else +0.1 under 72 hours)
C20_ScoreByClass ==
    \A i \in DOMAIN tech_articles :
        tech_articles[i].importance_score = ScoreByClass(tech_articles[i])

-----------------------------------------------------------------------------

\* the categories of categorize_articles whose keyword list has a term in
\* the text of the article
WeeklyMatches(article) ==
    LET text == article_text(article)
    IN  {c \in WeeklyCategories :
            \/ c = "ai_llm" /\ any_in(weekly_ai_llm, text)
            \/ c = "funding_ipo" /\ any_in(weekly_funding_ipo, text)
            \/ c = "big_tech" /\ any_in(weekly_big_tech, text)
            \/ c = "security" /\ any_in(weekly_security, text)
            \/ c = "regulation" /\ any_in(weekly_regulation, text)
            \/ c = "startups" /\ any_in(weekly_startups, text)}

InSection(article, section) ==
    \E i \in DOMAIN section : section[i] = article

\* C21 (as claimed): an article whose text holds keywords of several
\* categories appears in the section of each of those categories
C21_AllMatchesKept ==
    rpc = "weekly_done" =>
        \A i \in DOMAIN weekly_articles :
            \A c \in WeeklyMatches(weekly_articles[i]) :
                InSection(weekly_articles[i], categories[c])

-----------------------------------------------------------------------------

NonIncreasing(section) ==
    \A i, j \in DOMAIN section :
        i < j => section[i].importance_score >= section[j].importance_score

\* C22 (as claimed): the recap has exactly one section for every category
\* with at least one article, and the articles of a section are in
\* non-increasing order of importance score
C22_SectionPerCategory ==
    rpc = "tech_done" =>
        LET sections == create_industry_recap_prompt(tech_articles)
        IN  /\ DOMAIN sections =
                   {tech_articles[i].category : i \in DOMAIN tech_articles}
            /\ \A c \in DOMAIN sections : NonIncreasing(sections[c])

-----------------------------------------------------------------------------

\* the number of articles of a list that come from a source
FromSource(arts, source) ==
    Cardinality({i \in DOMAIN arts : arts[i].source = source.name})

\* C23 (as claimed): in one run no source contributes more than 20 entries
\* to the article list of a fetcher, however long its feed
C23_PerSourceCap ==
    \A k \in DOMAIN Sources :
        /\ FromSource(tech_articles, Sources[k]) <= WEEKLY_ENTRIES_PER_SOURCE
        /\ FromSource(weekly_articles, Sources[k]) <= WEEKLY_ENTRIES_PER_SOURCE
        /\ FromSource(analysis.articles, Sources[k])
               <= WEEKLY_ENTRIES_PER_SOURCE

-----------------------------------------------------------------------------

\* C24 (as claimed): every article a fetcher returns has a publication time
\* stamp, and it lies within the lookback window of 7 days
C24_DatedWithinWindow ==
    /\ \A i \in DOMAIN tech_articles : in_past_week(tech_articles[i])
    /\ \A i \in DOMAIN analysis.articles : in_past_week(analysis.articles[i])
    /\ \A i \in DOMAIN weekly_articles :
           weekly_articles[i].dated /\ in_past_week(weekly_articles[i])

\* content that fits the limit is the body, character for character
PassedUnchanged(prompt) ==
    prompt.body = [kept |-> prompt.content_len, appended |-> 0]

InBatch == pc \in {"check", "generate", "write"}

\* C26 (as claimed): no hangs: for every finite batch process_articles_batch
\* eventually returns its aggregate counts, even if the summarization
\* capability or the cache store never answers a call.
C26_BatchReturns == InBatch ~> (pc = "done")

\* C27 (as claimed): every response of the API lambda_handler carries the
\* CORS headers, whatever the request and whatever the outcome.
C27_CorsOnEveryResponse ==
    api_resp # NoApiResp => api_resp.cors

\* cached_summaries + new_summaries + len(errors) of the results dict
Counted == results.cached_summaries + results.new_summaries
               + Len(results.errors)

\* the generate_summary calls of the run that returned no summary
FailedGenerations ==
    Cardinality({i \in DOMAIN results.errors :
                    results.errors[i].kind = "generation_failed"})

\* the summary last counted as new for the id is the one the table holds
InCache(id) ==
    /\ id \in DOMAIN table
    /\ table[id].summary = reported[id].summary

\* C28 (as claimed): after any batch cached_summaries + new_summaries +
\* len(errors) equals the number of articles processed, and new_summaries
\* counts exactly the articles whose summary is present in the cache at the
\* end of the run.
C28_CountsAndCache ==
    (pc = "done" /\ batch_resp.statusCode = 200) =>
        /\ Counted = batch_resp.processed
        /\ \A id \in DOMAIN reported : InCache(id)

\* C28 (amended): at every moment of a batch the three counts add up to the
\* number of articles whose turn is over, each article being counted in
\* exactly one of them, so that a batch that returns reports counts that add
\* up to the number of articles processed; new_summaries counts exactly the
\* articles for which generate_summary returned a summary, and such a summary
\* is in the cache at the end of the run if its put_item succeeded (a failed
\* put_item is swallowed and the article still counted).
C28_CountConservation ==
    /\ Counted = idx - 1
    /\ idx - 1 <= Len(articles)
    /\ batch_resp.statusCode = 200 =>
          /\ Counted = batch_resp.processed
          /\ batch_resp.processed = Len(articles)
    /\ results.new_summaries + FailedGenerations
          + (IF pc = "write" THEN 1 ELSE 0) = invocations
    /\ \A id \in DOMAIN reported : reported[id].stored => InCache(id)

\* a batch of two returned: one article failed, the other was counted as new
\* although its put_item failed and the cache does not hold its summary
C28_Witness ==
    /\ pc = "done"
    /\ batch_resp.statusCode = 200
    /\ batch_resp.processed = 2
    /\ results.new_summaries = 1
    /\ Len(results.errors) = 1
    /\ \E id \in DOMAIN reported : ~reported[id].stored /\ id \notin DOMAIN table

\* the entries of 'summaries' that hold a summary
HoldSummary(resp) ==
    {id \in DOMAIN resp.summaries : resp.summaries[id].state = "found"}

\* C29 (as claimed): in the answer to POST /batch-summaries, for any list of
\* article ids, duplicates and store errors included, total_requested is at
\* most 50, found + not_found = total_requested and 'found' is the number of
\* entries of 'summaries' that hold a summary.
C29_FoundMatchesSummaries ==
    (api_resp.kind = "batch" /\ api_resp.statusCode = 200) =>
        /\ api_resp.total_requested <= max_batch_size
        /\ api_resp.found + api_resp.not_found = api_resp.total_requested
        /\ api_resp.found = Cardinality(HoldSummary(api_resp))

\* a step that reads the cache: the cache check of the batch, or a request
\* to the API handler
ReadStep ==
    \/ pc = "check" /\ step'.op = "get"
    \/ api_resp' # NoApiResp

\* what the read step serves is less than CACHE_DURATION_HOURS old
ServedFresh ==
    /\ (step'.op = "get" /\ step'.ret # NoSummary) =>
          Fresh(table[step'.id].created_at)
    /\ (api_resp'.kind = "single" /\ api_resp'.statusCode = 200) =>
          Fresh(api_resp'.created_at)
    /\ (api_resp'.kind = "batch" /\ api_resp'.statusCode = 200) =>
          \A id \in DOMAIN api_resp'.summaries :
              api_resp'.summaries[id].state = "found" =>
                  Fresh(api_resp'.summaries[id].created_at)

\* the step is the put of a summary just generated for step'.id and changes
\* no other entry
PutAfterGeneration ==
    /\ pc = "write"
    /\ step'.op = "put"
    /\ step'.id = articles[idx].id
    /\ \A id \in DOMAIN table : id # step'.id =>
          id \in DOMAIN table' /\ table'[id] = table[id]

\* the store removes entries at their expiry and changes none
Expiry ==
    /\ DOMAIN table' \subseteq DOMAIN table
    /\ \A id \in DOMAIN table' : table'[id] = table[id]

\* reads modify no entry, and entries change only by a put or at their expiry
ReadsFrame ==
    /\ ReadStep => table' = table
    /\ table' # table => PutAfterGeneration \/ Expiry

\* C30 (as claimed): reads leave the cache unchanged: a cache hit of the batch
\* and every API request modify no entry, so that an entry stops being served
\* 24 hours after it was generated however often it was read, and the only
\* operation that changes an entry is the put after a successful generation
\* for that identifier.
C30_ReadsLeaveCacheUnchanged ==
    [][ReadsFrame /\ (ReadStep => ServedFresh)]_vars

====
